---- MODULE Spec2Model ----
(***************************************************************************)
(* The penguin classification service: app/main.py (module-level start-up, *)
(* request validation, the /predict handler) and the part of train.py that *)
(* writes the metadata the service reads.                                  *)
(*                                                                         *)
(* A column name "<prefix>_<level>" is the pair <<prefix, level>>, a plain *)
(* column name "year" is <<"year">>: two names are the same string exactly *)
(* when the tuples are equal (no name of the model holds a "_" of its own  *)
(* that would make two pairs spell one string).  A one-row DataFrame is    *)
(* the record [columns |-> <<names>>, values |-> <<numbers>>].  Numbers    *)
(* are integers (40 for 40.0); a get_dummies indicator True is 1.          *)
(***************************************************************************)
EXTENDS Integers, Sequences, FiniteSets, TLC

VARIABLES
    os_environ,      \* names defined in the process environment
    gcs,             \* the remote object store: [status, content]
    metadata_file,   \* app/data/metadata.json on disk
    enum_format,     \* what format() of a (str, Enum) member gives on this interpreter
    phase,           \* position of the module-level code of app/main.py
    local_model_path,\* the downloaded scratch file
    model,           \* module global `model`
    meta,            \* module global `meta`
    FEATURE_COLUMNS, \* module global
    LABEL_CLASSES,   \* module global
    module_names,    \* names bound in app.main's namespace so far
    loads,           \* how many times the model and the metadata were loaded
    pc,              \* per request slot: position in the request's handling
    route,           \* per request slot: the path requested
    body,            \* per request slot: the JSON body received
    payload,         \* per request slot: features.model_dump()
    df,              \* per request slot: the local DataFrame
    pred,            \* per request slot: outcome of model.predict(df)[0]
    response,        \* per request slot: the HTTP response
    test_import      \* outcome of tests/test_api.py line 30

envvars == <<os_environ, gcs, metadata_file, enum_format>>
startvars == <<phase, local_model_path, model, meta, FEATURE_COLUMNS,
               LABEL_CLASSES, module_names, loads>>
reqvars == <<pc, route, body, payload, df, pred, response>>
vars == <<envvars, startvars, reqvars, test_import>>

(***************************************************************************)
(* Bounds of the model.                                                    *)
(***************************************************************************)
\* Request slots that may be in flight at once in the concurrent specification.
MaxInFlight == 2
\* The largest class index a model may emit (label_classes has 3 entries: 3 is
\* one past the end); the smallest is -1.
MaxEmit == 3

Workers == 1..MaxInFlight
EmitRange == (-1)..MaxEmit

(***************************************************************************)
(* Sequence helpers.                                                       *)
(***************************************************************************)
Range(s) == {s[i] : i \in DOMAIN s}

RECURSIVE Flatten(_)
Flatten(ss) == IF ss = <<>> THEN <<>> ELSE Head(ss) \o Flatten(Tail(ss))

\* Index.get_loc on a unique index: the 1-based position of x in s, 0 when absent.
IndexOf(s, x) ==
    IF \E i \in DOMAIN s : s[i] = x
    THEN CHOOSE i \in DOMAIN s : s[i] = x /\ \A j \in 1..(i-1) : s[j] # x
    ELSE 0

\* The members of `order` that are in set S, in the order of `order` (sorted(S)).
Sorted(S, order) == LET In(x) == x \in S IN SelectSeq(order, In)

(***************************************************************************)
(* 1-2. The request schema: enums and PenguinFeatures.                     *)
(***************************************************************************)
Island == {"Torgersen", "Biscoe", "Dream"}
Sex == {"male", "female"}

\* Lexicographic order of the category values (pandas sorts the categories).
SexOrder == <<"female", "male">>
IslandOrder == <<"Biscoe", "Dream", "Torgersen">>

FloatFields == {"bill_length_mm", "bill_depth_mm", "flipper_length_mm", "body_mass_g"}
PenguinFeatures ==
    <<"bill_length_mm", "bill_depth_mm", "flipper_length_mm", "body_mass_g",
      "year", "sex", "island">>
CategoricalColumns == <<"sex", "island">>

\* A JSON value of the body: a number, a string spelling a number, another string.
Num(n) == [t |-> "num", v |-> n]
NumStr(n) == [t |-> "numstr", v |-> n]
Str(s) == [t |-> "str", v |-> s]

\* pydantic's (lax mode) verdict on one field of the body: the error type, or "ok".
FieldVerdict(b, f) ==
    IF f \notin DOMAIN b THEN "missing"
    ELSE IF f \in FloatFields
         THEN (IF b[f].t \in {"num", "numstr"} THEN "ok" ELSE "float_parsing")
    ELSE IF f = "year"
         THEN (IF b[f].t \in {"num", "numstr"} THEN "ok" ELSE "int_parsing")
    ELSE IF f = "sex"
         THEN (IF b[f].t = "str" /\ b[f].v \in Sex THEN "ok" ELSE "enum")
    ELSE (IF b[f].t = "str" /\ b[f].v \in Island THEN "ok" ELSE "enum")

\* exc.errors(): one entry per offending field, in the order of the schema.
ValidationErrors(b) ==
    Flatten([i \in DOMAIN PenguinFeatures |->
        LET f == PenguinFeatures[i]
        IN IF FieldVerdict(b, f) = "ok" THEN <<>>
           ELSE << [loc |-> <<"body", f>>, type |-> FieldVerdict(b, f)] >>])

\* The validated object: numbers coerced, the enum fields as enum members.
Validated(b) ==
    [f \in Range(PenguinFeatures) |->
        IF f = "sex" THEN [enum |-> "Sex", value |-> b[f].v]
        ELSE IF f = "island" THEN [enum |-> "Island", value |-> b[f].v]
        ELSE b[f].v]

(***************************************************************************)
(* 4. validation_exception_handler.                                        *)
(***************************************************************************)
HTTP_400_BAD_REQUEST == 400

\* FastAPI's built-in handler, which the application replaces: 422.
default_validation_handler(errors) ==
    [kind |-> "error", status_code |-> 422, detail |-> errors]

validation_exception_handler(errors) ==
    [kind |-> "error", status_code |-> HTTP_400_BAD_REQUEST, detail |-> errors]

(***************************************************************************)
(* pandas: DataFrame([payload]), get_dummies, reindex.                     *)
(***************************************************************************)
\* The payload's sex and island are (str, Enum) members (model_dump keeps them),
\* and get_dummies names an indicator with an f-string over the level.
\* format(member) of a (str, Enum) member, as that f-string calls it:
\* the member's value where Enum.__format__ defers to str.__format__ (Python up to
\* 3.10), "<Class>.<name>" where it defers to Enum.__str__ (Python 3.11 on).
EnumFormat(member, fmt) ==
    IF fmt = "value" THEN member.value
    ELSE CASE member.enum = "Sex" /\ member.value = "male" -> "Sex.male"
           [] member.enum = "Sex" /\ member.value = "female" -> "Sex.female"
           [] member.enum = "Island" /\ member.value = "Torgersen" -> "Island.Torgersen"
           [] member.enum = "Island" /\ member.value = "Biscoe" -> "Island.Biscoe"
           [] member.enum = "Island" /\ member.value = "Dream" -> "Island.Dream"

\* pd.DataFrame([payload]): one row, the columns in the dict's order.
DataFrame(p) ==
    [columns |-> [i \in DOMAIN PenguinFeatures |-> <<PenguinFeatures[i]>>],
     values  |-> [i \in DOMAIN PenguinFeatures |-> p[PenguinFeatures[i]]]]

\* The indicator columns of one categorical column whose observed levels, as
\* formatted, are `labels` (sorted): f"{prefix}{prefix_sep}{level}".
DummyColumns(prefix, labels) ==
    [i \in DOMAIN labels |-> <<prefix, labels[i]>>]

\* pd.get_dummies(frame, columns=cols) on a one-row frame: the other columns in
\* their order, then for each encoded column one indicator, for the level the row
\* holds, set.
get_dummies(frame, cols, fmt) ==
    LET keep == {i \in DOMAIN frame.columns : frame.columns[i] \notin
                    {<<cols[k]>> : k \in DOMAIN cols}}
        Kept(i) == i \in keep
        idx == SelectSeq([i \in DOMAIN frame.columns |-> i], Kept)
        level(c) == frame.values[IndexOf(frame.columns, <<c>>)]
    IN [columns |-> [i \in DOMAIN idx |-> frame.columns[idx[i]]]
                    \o Flatten([k \in DOMAIN cols |->
                                  DummyColumns(cols[k],
                                      <<EnumFormat(level(cols[k]), fmt)>>)]),
        values  |-> [i \in DOMAIN idx |-> frame.values[idx[i]]]
                    \o [k \in DOMAIN cols |-> 1]]

\* A reindex that only selects the known columns and inserts nothing.
reindex_no_fill(frame, target, fill_value) ==
    LET Known(c) == IndexOf(frame.columns, c) # 0
        cols == SelectSeq(target, Known)
    IN [columns |-> cols,
        values  |-> [i \in DOMAIN cols |-> frame.values[IndexOf(frame.columns, cols[i])]]]

\* frame.reindex(columns=target, fill_value=fill_value): the indexer of the target
\* into the frame's columns, then a take with the missing positions filled.
reindex(frame, target, fill_value) ==
    LET indexer == [i \in DOMAIN target |-> IndexOf(frame.columns, target[i])]
    IN [columns |-> target,
        values  |-> [i \in DOMAIN target |->
                        IF indexer[i] = 0 THEN fill_value
                        ELSE frame.values[indexer[i]]]]

(***************************************************************************)
(* train.py: the metadata written for a training set.                      *)
(***************************************************************************)
\* X.columns of line 30: the non-categorical columns of X_raw in their order,
\* then the indicators of the observed sex values, then of the observed islands.
TrainFeatureColumns(ds) ==
    LET Plain(c) == c \notin Range(CategoricalColumns)
        plain == SelectSeq(ds.columns, Plain)
    IN [i \in DOMAIN plain |-> <<plain[i]>>]
       \o DummyColumns("sex", Sorted(ds.sex, SexOrder))
       \o DummyColumns("island", Sorted(ds.island, IslandOrder))

SpeciesOrder == <<"Adelie", "Chinstrap", "Gentoo">>

\* The dict of lines 66-69.
TrainMetadata(ds) ==
    [feature_columns |-> TrainFeatureColumns(ds),
     label_classes   |-> Sorted(ds.species, SpeciesOrder)]

(***************************************************************************)
(* The model artifact.  XGBClassifier is opaque to the service: a          *)
(* deterministic function of the feature row.  Here it is a decision stump *)
(* over the columns it was fitted on, emitting the class index `lo` or     *)
(* `hi`; `fails` is a predict call that raises whatever it is given.       *)
(***************************************************************************)
Stump(names, split, lo, hi, fails) ==
    [kind |-> "xgb", feature_names |-> names, split |-> split,
     lo |-> lo, hi |-> hi, fails |-> fails]

\* model.predict(frame)[0]: XGBoost refuses a frame whose columns are not the
\* feature names it was fitted on; otherwise the stump's class index (a stump
\* whose split column is not among its features is a single leaf, `lo`).
model_predict(m, frame) ==
    IF m.fails THEN [kind |-> "raised", exc |-> "RuntimeError"]
    ELSE IF frame.columns # m.feature_names
         THEN [kind |-> "raised", exc |-> "ValueError: feature_names mismatch"]
    ELSE [kind |-> "value",
          value |-> IF IndexOf(m.feature_names, m.split) = 0 THEN m.lo
                    ELSE IF frame.values[IndexOf(m.feature_names, m.split)] > 0
                    THEN m.hi ELSE m.lo]

(***************************************************************************)
(* The worlds a process may start in.                                      *)
(***************************************************************************)
RequiredEnv == {"GCS_BUCKET_NAME", "GCS_BLOB_NAME"}

\* The columns of X_raw (line 27) for the two published layouts of the penguins
\* data: seaborn's, and the one with a year column that the request schema has.
XRawColumns ==
    { <<"island", "bill_length_mm", "bill_depth_mm", "flipper_length_mm",
        "body_mass_g", "sex">>,
      <<"island", "bill_length_mm", "bill_depth_mm", "flipper_length_mm",
        "body_mass_g", "sex", "year">> }

\* Training sets, by what train.py reads of them: the columns and the values
\* observed in the categorical columns and in the label column.
TrainingSets ==
    [columns : XRawColumns,
     sex     : {{"male", "female"}, {"male"}},
     island  : {{"Torgersen", "Biscoe", "Dream"}, {"Biscoe", "Dream"}},
     species : {{"Adelie", "Chinstrap", "Gentoo"}}]

\* The columns a stump may split on.
SplitColumns(ds) ==
    {<<"body_mass_g">>, <<"sex", "male">>} \cup
    {<<"island", v>> : v \in ds.island \cap {"Torgersen", "Dream"}}

\* The models a training run on ds may leave in the bucket.  A model that emits
\* an index outside the label vocabulary is a model that does not match the
\* metadata it is deployed with.
ModelsOf(ds) ==
    {Stump(TrainFeatureColumns(ds), c, lo, hi, FALSE) :
        c \in SplitColumns(ds), lo \in EmitRange, hi \in EmitRange}
    \cup {Stump(TrainFeatureColumns(ds), <<"body_mass_g">>, 0, 1, TRUE)}

MetadataJson(d) == [kind |-> "json", dict |-> d]

\* A world in which start-up succeeds.
GoodWorlds(datasets, formats) ==
    UNION {{[environ |-> RequiredEnv,
             gcs |-> [status |-> "ok", content |-> m],
             metadata_file |-> MetadataJson(TrainMetadata(ds)),
             enum_format |-> fmt] : m \in ModelsOf(ds), fmt \in formats} :
           ds \in datasets}

BaseSet ==
    [columns |-> <<"island", "bill_length_mm", "bill_depth_mm",
                   "flipper_length_mm", "body_mass_g", "sex", "year">>,
     sex |-> {"male", "female"}, island |-> {"Torgersen", "Biscoe", "Dream"},
     species |-> {"Adelie", "Chinstrap", "Gentoo"}]
BaseModel == Stump(TrainFeatureColumns(BaseSet), <<"body_mass_g">>, 0, 2, FALSE)
BaseWorld ==
    [environ |-> RequiredEnv, gcs |-> [status |-> "ok", content |-> BaseModel],
     metadata_file |-> MetadataJson(TrainMetadata(BaseSet)), enum_format |-> "value"]

\* Worlds in which some step of start-up fails.
BadWorlds ==
    {[BaseWorld EXCEPT !.environ = e] : e \in (SUBSET RequiredEnv) \ {RequiredEnv}}
    \cup {[BaseWorld EXCEPT !.gcs.status = st] :
            st \in {"no_credentials", "unreachable", "forbidden", "not_found"}}
    \cup {[BaseWorld EXCEPT !.gcs.content = [kind |-> "garbage"]]}
    \cup {[BaseWorld EXCEPT !.metadata_file = f] :
            f \in {[kind |-> "absent"], [kind |-> "invalid_json"]}}
    \cup {[BaseWorld EXCEPT !.metadata_file =
              MetadataJson([k \in ks |-> TrainMetadata(BaseSet)[k]])] :
            ks \in (SUBSET {"feature_columns", "label_classes"})
                     \ {{"feature_columns", "label_classes"}}}

\* Whether start-up fails in the world the process is in.
StartupFails ==
    \/ ~(RequiredEnv \subseteq os_environ)
    \/ gcs.status # "ok"
    \/ gcs.content.kind # "xgb"
    \/ metadata_file.kind # "json"
    \/ ~({"feature_columns", "label_classes"} \subseteq DOMAIN metadata_file.dict)

(***************************************************************************)
(* The request bodies clients send.                                        *)
(***************************************************************************)
ValidBody(mass, sex, island) ==
    [f \in Range(PenguinFeatures) |->
        CASE f = "bill_length_mm" -> Num(40)
          [] f = "bill_depth_mm" -> Num(18)
          [] f = "flipper_length_mm" -> Num(195)
          [] f = "body_mass_g" -> Num(mass)
          [] f = "year" -> Num(2008)
          [] f = "sex" -> Str(sex)
          [] f = "island" -> Str(island)]

TestBody == ValidBody(4000, "male", "Biscoe")
Without(b, f) == [g \in (DOMAIN b) \ {f} |-> b[g]]
BodyMasses == {-3000, 0, 4000}

ValidBodies ==
    {ValidBody(m, s, i) : m \in BodyMasses, s \in Sex, i \in Island}
    \cup {[TestBody EXCEPT !["flipper_length_mm"] = NumStr(195)]}

InvalidBodies ==
    {Without(TestBody, f) : f \in Range(PenguinFeatures)}
    \cup {[TestBody EXCEPT ![f] = Str("not_a_float")] : f \in FloatFields \cup {"year"}}
    \cup {[TestBody EXCEPT !["sex"] = Str("other")],
          [TestBody EXCEPT !["sex"] = Num(1)],
          [TestBody EXCEPT !["island"] = Str("Atlantis")],
          [f \in {} |-> Num(0)]}

Bodies == ValidBodies \cup InvalidBodies

\* The bodies of the concurrent specification.
FewBodies ==
    {ValidBody(4000, "male", "Biscoe"), ValidBody(0, "female", "Torgersen"),
     ValidBody(-3000, "male", "Dream"), Without(TestBody, "bill_length_mm")}

(***************************************************************************)
(* Start-up: the module-level code of app/main.py, run once on import.     *)
(***************************************************************************)
NoBody == [f \in {} |-> Num(0)]
NoFrame == [columns |-> <<>>, values |-> <<>>]
Nothing == [kind |-> "none"]

InitIn(worlds) ==
    /\ \E w \in worlds :
         /\ os_environ = w.environ
         /\ gcs = w.gcs
         /\ metadata_file = w.metadata_file
         /\ enum_format = w.enum_format
    /\ phase = "environ"
    /\ local_model_path = Nothing
    /\ model = Nothing
    /\ meta = Nothing
    /\ FEATURE_COLUMNS = <<>>
    /\ LABEL_CLASSES = <<>>
    /\ module_names = {"Island", "Sex", "PenguinFeatures", "app", "logger",
                       "validation_exception_handler"}
    /\ loads = [model |-> 0, metadata |-> 0]
    /\ pc = [r \in Workers |-> "idle"]
    /\ route = [r \in Workers |-> ""]
    /\ body = [r \in Workers |-> NoBody]
    /\ payload = [r \in Workers |-> NoBody]
    /\ df = [r \in Workers |-> NoFrame]
    /\ pred = [r \in Workers |-> Nothing]
    /\ response = [r \in Workers |-> Nothing]
    /\ test_import = "not_run"

Init == InitIn(GoodWorlds(TrainingSets, {"value", "member"}) \cup BadWorlds)

\* An uncaught exception in module-level code: the import fails, no app is served.
Crash ==
    /\ phase' = "crashed"
    /\ UNCHANGED <<local_model_path, model, meta, FEATURE_COLUMNS, LABEL_CLASSES,
                   module_names, loads>>

\* Lines 64-65: os.environ[...] raises KeyError for a name that is not set.
ReadEnviron ==
    /\ phase = "environ"
    /\ IF RequiredEnv \subseteq os_environ
       THEN /\ phase' = "client"
            /\ module_names' = module_names \cup {"bucket_name", "blob_name"}
            /\ UNCHANGED <<local_model_path, model, meta, FEATURE_COLUMNS,
                           LABEL_CLASSES, loads>>
       ELSE Crash
    /\ UNCHANGED <<envvars, reqvars, test_import>>

\* Lines 67-69: storage.Client() raises without credentials.
CreateClient ==
    /\ phase = "client"
    /\ IF gcs.status # "no_credentials"
       THEN /\ phase' = "download"
            /\ module_names' = module_names \cup {"client", "bucket", "blob"}
            /\ UNCHANGED <<local_model_path, model, meta, FEATURE_COLUMNS,
                           LABEL_CLASSES, loads>>
       ELSE Crash
    /\ UNCHANGED <<envvars, reqvars, test_import>>

\* Lines 72-75: the blob is copied to a fresh temporary directory.
Download ==
    /\ phase = "download"
    /\ IF gcs.status = "ok"
       THEN /\ phase' = "load_model"
            /\ local_model_path' = gcs.content
            /\ module_names' = module_names \cup {"temp_dir", "local_model_path"}
            /\ UNCHANGED <<model, meta, FEATURE_COLUMNS, LABEL_CLASSES, loads>>
       ELSE Crash
    /\ UNCHANGED <<envvars, reqvars, test_import>>

\* Lines 78-80: load_model raises on a file that is not a model.
LoadModel ==
    /\ phase = "load_model"
    /\ IF local_model_path.kind = "xgb"
       THEN /\ phase' = "load_metadata"
            /\ model' = local_model_path
            /\ loads' = [loads EXCEPT !.model = @ + 1]
            /\ module_names' = module_names \cup {"model"}
            /\ UNCHANGED <<local_model_path, meta, FEATURE_COLUMNS, LABEL_CLASSES>>
       ELSE Crash
    /\ UNCHANGED <<envvars, reqvars, test_import>>

\* Lines 83-85: open raises on a missing file, json.load on a malformed one.
LoadMetadata ==
    /\ phase = "load_metadata"
    /\ IF metadata_file.kind = "json"
       THEN /\ phase' = "bind_metadata"
            /\ meta' = metadata_file.dict
            /\ loads' = [loads EXCEPT !.metadata = @ + 1]
            /\ module_names' = module_names \cup {"metadata_path", "meta"}
            /\ UNCHANGED <<local_model_path, model, FEATURE_COLUMNS, LABEL_CLASSES>>
       ELSE Crash
    /\ UNCHANGED <<envvars, reqvars, test_import>>

\* meta.get(key, []): a lookup that does not raise.
meta_get(d, key) ==
    IF key \in DOMAIN d THEN [kind |-> "value", value |-> d[key]]
    ELSE [kind |-> "value", value |-> <<>>]

\* meta[key]: KeyError for a key the file lacks.
meta_getitem(d, key) ==
    IF key \in DOMAIN d THEN [kind |-> "value", value |-> d[key]]
    ELSE [kind |-> "raised", exc |-> "KeyError"]

\* Lines 87-101: the two lookups, then the routes are registered.
BindMetadata ==
    /\ phase = "bind_metadata"
    /\ LET fc == meta_getitem(meta, "feature_columns")
           lc == meta_getitem(meta, "label_classes")
       IN IF fc.kind = "value" /\ lc.kind = "value"
          THEN /\ phase' = "serving"
               /\ FEATURE_COLUMNS' = fc.value
               /\ LABEL_CLASSES' = lc.value
               /\ module_names' = module_names \cup
                     {"FEATURE_COLUMNS", "LABEL_CLASSES", "read_root",
                      "health_check", "predict"}
               /\ UNCHANGED <<local_model_path, model, meta, loads>>
          ELSE Crash
    /\ UNCHANGED <<envvars, reqvars, test_import>>

Startup ==
    \/ ReadEnviron
    \/ CreateClient
    \/ Download
    \/ LoadModel
    \/ LoadMetadata
    \/ BindMetadata

(***************************************************************************)
(* Requests.  Validation runs before the handler is entered; the handler   *)
(* `predict` runs in a worker thread, one slot per request in flight, and  *)
(* its statements interleave with those of the other slots.                *)
(***************************************************************************)
\* features.model_dump(): the fields as a dict; the enum fields stay enum members.
model_dump(features) == [f \in DOMAIN features |-> features[f]]

JsonOk(content) == [kind |-> "ok", status_code |-> 200, json |-> content]

\* HTTPException(status_code=500, detail=str(exc)): the exception echoed.
InternalErrorEchoing(exc) ==
    [kind |-> "error", status_code |-> 500, detail |-> exc]

\* Line 129: the response of the except branch, whatever was raised.
InternalError(exc) ==
    [kind |-> "error", status_code |-> 500, detail |-> "Internal prediction error"]

\* classes[i + 1]: a lookup one position off.
list_getitem_shifted(classes, i) ==
    IF 0 <= i + 1 /\ i + 1 < Len(classes)
    THEN [kind |-> "value", value |-> classes[i + 2]]
    ELSE [kind |-> "raised", exc |-> "IndexError"]

\* classes[i] of a Python list: an index below zero counts from the end,
\* IndexError outside -len .. len-1.
list_getitem(classes, i) ==
    IF 0 <= i /\ i < Len(classes)
    THEN [kind |-> "value", value |-> classes[i + 1]]
    ELSE IF -Len(classes) <= i /\ i < 0
    THEN [kind |-> "value", value |-> classes[Len(classes) + i + 1]]
    ELSE [kind |-> "raised", exc |-> "IndexError"]

\* POST /predict arrives with body b: a body that fails validation is answered by
\* validation_exception_handler and the handler is not entered; otherwise line 115.
Receive(r, B) ==
    /\ phase = "serving"
    /\ pc[r] = "idle"
    /\ route' = [route EXCEPT ![r] = "/predict"]
    /\ \E b \in B :
         /\ body' = [body EXCEPT ![r] = b]
         /\ IF ValidationErrors(b) # <<>>
            THEN /\ response' = [response EXCEPT ![r] =
                                    validation_exception_handler(ValidationErrors(b))]
                 /\ pc' = [pc EXCEPT ![r] = "done"]
                 /\ UNCHANGED payload
            ELSE /\ payload' = [payload EXCEPT ![r] = model_dump(Validated(b))]
                 /\ pc' = [pc EXCEPT ![r] = "encode"]
                 /\ UNCHANGED response
    /\ UNCHANGED <<envvars, startvars, df, pred, test_import>>

\* Lines 92-95: GET /.
read_root(r) ==
    /\ phase = "serving"
    /\ pc[r] = "idle"
    /\ route' = [route EXCEPT ![r] = "/"]
    /\ response' = [response EXCEPT ![r] =
          JsonOk([message |-> "Hello! Welcome to the Penguins Classification API."])]
    /\ pc' = [pc EXCEPT ![r] = "done"]
    /\ UNCHANGED <<envvars, startvars, body, payload, df, pred, test_import>>

\* Lines 98-101: GET /health.
health_check(r) ==
    /\ phase = "serving"
    /\ pc[r] = "idle"
    /\ route' = [route EXCEPT ![r] = "/health"]
    /\ response' = [response EXCEPT ![r] = JsonOk([status |-> "ok"])]
    /\ pc' = [pc EXCEPT ![r] = "done"]
    /\ UNCHANGED <<envvars, startvars, body, payload, df, pred, test_import>>

\* Lines 118-119: the frame of the payload, its categorical columns expanded.
Encode(r) ==
    /\ pc[r] = "encode"
    /\ df' = [df EXCEPT ![r] =
                 get_dummies(DataFrame(payload[r]), CategoricalColumns, enum_format)]
    /\ pc' = [pc EXCEPT ![r] = "reindex"]
    /\ UNCHANGED <<envvars, startvars, route, body, payload, pred, response, test_import>>

\* The reconciliation written so that it records the request's columns in the
\* module global.
ReindexIntoGlobal(r) ==
    /\ pc[r] = "reindex"
    /\ df' = [df EXCEPT ![r] = reindex(df[r], FEATURE_COLUMNS, 0)]
    /\ FEATURE_COLUMNS' = df[r].columns
    /\ pc' = [pc EXCEPT ![r] = "predict"]
    /\ UNCHANGED <<envvars, phase, local_model_path, model, meta, LABEL_CLASSES,
                   module_names, loads, route, body, payload, pred, response, test_import>>

\* Line 120.
Reindex(r) ==
    /\ pc[r] = "reindex"
    /\ df' = [df EXCEPT ![r] = reindex(df[r], FEATURE_COLUMNS, 0)]
    /\ pc' = [pc EXCEPT ![r] = "predict"]
    /\ UNCHANGED <<envvars, startvars, route, body, payload, pred, response, test_import>>

\* The frame of the request that reached the model call first, as a frame kept in
\* a module global would be.
SharedFrame(r) ==
    df[CHOOSE q \in Workers :
          /\ pc[q] = "predict"
          /\ \A p \in Workers : pc[p] = "predict" => q <= p]

\* The frame line 123 hands to the model: the handler's local df.
ModelInput(r) == df[r]

\* Line 123.
Predict(r) ==
    /\ pc[r] = "predict"
    /\ pred' = [pred EXCEPT ![r] = model_predict(model, ModelInput(r))]
    /\ pc' = [pc EXCEPT ![r] = "decode"]
    /\ UNCHANGED <<envvars, startvars, route, body, payload, df, response, test_import>>

\* Lines 124-129: the label of the class index, or the except branch.
Decode(r) ==
    /\ pc[r] = "decode"
    /\ LET species == IF pred[r].kind = "raised" THEN pred[r]
                      ELSE list_getitem(LABEL_CLASSES, pred[r].value)
       IN response' = [response EXCEPT ![r] =
              IF species.kind = "raised" THEN InternalError(species.exc)
              ELSE JsonOk([species |-> species.value])]
    /\ pc' = [pc EXCEPT ![r] = "done"]
    /\ UNCHANGED <<envvars, startvars, route, body, payload, df, pred, test_import>>

\* The response is sent; the request's locals are gone.
Complete(r) ==
    /\ pc[r] = "done"
    /\ pc' = [pc EXCEPT ![r] = "idle"]
    /\ route' = [route EXCEPT ![r] = ""]
    /\ body' = [body EXCEPT ![r] = NoBody]
    /\ payload' = [payload EXCEPT ![r] = NoBody]
    /\ df' = [df EXCEPT ![r] = NoFrame]
    /\ pred' = [pred EXCEPT ![r] = Nothing]
    /\ response' = [response EXCEPT ![r] = Nothing]
    /\ UNCHANGED <<envvars, startvars, test_import>>

\* tests/test_api.py line 30: from app.main import app, _download_from_gcs, model.
TestImport ==
    /\ phase = "serving"
    /\ test_import = "not_run"
    /\ test_import' = IF {"app", "_download_from_gcs", "model"} \subseteq module_names
                      THEN "imported" ELSE "ImportError"
    /\ UNCHANGED <<envvars, startvars, reqvars>>

Serve(W, B) ==
    \E r \in W :
        \/ Receive(r, B)
        \/ read_root(r)
        \/ health_check(r)
        \/ Encode(r)
        \/ Reindex(r)
        \/ Predict(r)
        \/ Decode(r)
        \/ Complete(r)

\* One request at a time, every world and every body.
Sequential == {1}
Next == Startup \/ Serve(Sequential, Bodies) \/ TestImport
Spec == Init /\ [][Next]_vars

\* Requests in every slot at once, a few worlds and bodies.
FewSets ==
    {BaseSet,
     [columns |-> <<"island", "bill_length_mm", "bill_depth_mm",
                    "flipper_length_mm", "body_mass_g", "sex">>,
      sex |-> {"male"}, island |-> {"Biscoe", "Dream"},
      species |-> {"Adelie", "Chinstrap", "Gentoo"}]}
FewModels(ds) ==
    {Stump(TrainFeatureColumns(ds), <<"body_mass_g">>, 0, 2, FALSE),
     Stump(TrainFeatureColumns(ds), <<"sex", "male">>, 1, 0, FALSE),
     Stump(TrainFeatureColumns(ds), <<"island", "Dream">>, MaxEmit, 1, FALSE),
     Stump(TrainFeatureColumns(ds), <<"body_mass_g">>, 0, 1, TRUE)}
FewWorlds ==
    UNION {{[environ |-> RequiredEnv,
             gcs |-> [status |-> "ok", content |-> m],
             metadata_file |-> MetadataJson(TrainMetadata(ds)),
             enum_format |-> "value"] : m \in FewModels(ds)} : ds \in FewSets}
InitConc == InitIn(FewWorlds \cup BadWorlds)
NextConc == Startup \/ Serve(Workers, FewBodies) \/ TestImport
SpecConc == InitConc /\ [][NextConc]_vars

\* One request at a time against metadata whose feature_columns are any list,
\* written by train.py or not.
MaxCols == 3
ColumnUniverse ==
    {<<"body_mass_g">>, <<"year">>, <<"sex", "male">>, <<"sex", "female">>,
     <<"island", "Biscoe">>, <<"colour">>}
ColumnLists == UNION {[1..n -> ColumnUniverse] : n \in 0..MaxCols}
SchemaWorlds ==
    {[environ |-> RequiredEnv,
      gcs |-> [status |-> "ok", content |-> Stump(cols, <<"body_mass_g">>, 0, 2, FALSE)],
      metadata_file |-> MetadataJson([feature_columns |-> cols,
                                      label_classes |-> SpeciesOrder]),
      enum_format |-> fmt] : cols \in ColumnLists, fmt \in {"value", "member"}}
InitSchema == InitIn(SchemaWorlds)
NextSchema == Startup \/ Serve(Sequential, FewBodies) \/ TestImport
SpecSchema == InitSchema /\ [][NextSchema]_vars

(***************************************************************************)
(* Properties.                                                             *)
(***************************************************************************)
Answered(r) == pc[r] = "done"
ValidRequest(r) == route[r] = "/predict" /\ ValidationErrors(body[r]) = <<>>
\* The frame the request holds has been reconciled.
Reconciled(r) ==
    /\ ValidRequest(r)
    /\ pc[r] \in {"predict", "decode", "done"}

\* The encoded record's value for a column name, 0 when it has no such column.
ValueOr0(enc, c) ==
    IF \E j \in DOMAIN enc.columns : enc.columns[j] = c
    THEN enc.values[CHOOSE j \in DOMAIN enc.columns : enc.columns[j] = c]
    ELSE 0

\* C1: whenever line 120 runs, the frame it leaves has exactly
\* len(FEATURE_COLUMNS) entries, entry i being the encoded record's value for
\* FEATURE_COLUMNS[i] when the encoded record has that column and 0 otherwise;
\* the encoded record's other columns are gone and the step does not fail.
C1_Reconciliation ==
    [][\A r \in Workers :
          (pc[r] = "reindex" /\ pc'[r] # "reindex") =>
             /\ pc'[r] = "predict"
             /\ df'[r].columns = FEATURE_COLUMNS
             /\ Len(df'[r].values) = Len(FEATURE_COLUMNS)
             /\ \A i \in 1..Len(FEATURE_COLUMNS) :
                   df'[r].values[i] = ValueOr0(df[r], FEATURE_COLUMNS[i])]_vars

EncodedColumns(r) ==
    Range(get_dummies(DataFrame(payload[r]), CategoricalColumns, enum_format).columns)

\* A reconciled frame whose encoded record had a column the schema lacks and
\* lacked a column the schema has, and one that it had.
C1_Witness ==
    \E r \in Workers :
        /\ Reconciled(r)
        /\ pc[r] = "predict"
        /\ Len(df[r].values) = Len(FEATURE_COLUMNS)
        /\ \E c \in EncodedColumns(r) : c \notin Range(FEATURE_COLUMNS)
        /\ \E c \in Range(FEATURE_COLUMNS) : c \notin EncodedColumns(r)
        /\ \E c \in Range(FEATURE_COLUMNS) : c \in EncodedColumns(r)

\* Whether the request's value of a categorical field was observed in training:
\* "<field>_<value>" is a feature column.
SeenInTraining(r, field) ==
    <<field, payload[r][field].value>> \in Range(FEATURE_COLUMNS)

\* C2: for a validated record whose sex and island were both seen in training,
\* the reconciled frame's indicator entries of each categorical field are 1 for
\* the record's value and 0 for every other value, so they sum to 1.
C2_OneHot ==
    \A r \in Workers :
        (Reconciled(r) /\ SeenInTraining(r, "sex") /\ SeenInTraining(r, "island")) =>
            \A i \in 1..Len(FEATURE_COLUMNS) :
                LET c == FEATURE_COLUMNS[i]
                IN (Len(c) = 2 /\ c[1] \in {"sex", "island"}) =>
                      df[r].values[i] =
                          IF c[2] = payload[r][c[1]].value THEN 1 ELSE 0

\* C3: a request whose model.predict call raised is answered 500 with the detail
\* "Internal prediction error" and nothing else: no species, no word of the
\* exception.
C3_PredictRaises ==
    \A r \in Workers :
        (Answered(r) /\ pred[r].kind = "raised") =>
            response[r] = [kind |-> "error", status_code |-> 500,
                           detail |-> "Internal prediction error"]

C3_Witness ==
    \E r \in Workers :
        /\ Answered(r) /\ pred[r].kind = "raised"
        /\ response[r].status_code = 500

\* C4: a /predict request whose body fails validation is answered 400 with a
\* non-empty list of errors, one per offending field, and none of the encoder,
\* the reconciler and the model call has run for it.
C4_ValidationRejected ==
    \A r \in Workers :
        (route[r] = "/predict" /\ ValidationErrors(body[r]) # <<>>) =>
            /\ Answered(r)
            /\ response[r].kind = "error"
            /\ response[r].status_code = 400
            /\ Len(response[r].detail) >= 1
            /\ \A i \in DOMAIN response[r].detail :
                  /\ response[r].detail[i].loc[1] = "body"
                  /\ response[r].detail[i].loc[2] \in Range(PenguinFeatures)
                  /\ \A j \in DOMAIN response[r].detail :
                        response[r].detail[j].loc = response[r].detail[i].loc => i = j
            /\ payload[r] = NoBody
            /\ df[r] = NoFrame
            /\ pred[r] = Nothing

\* The empty body, answered 400 with one error for each of the seven fields.
C4_Witness ==
    \E r \in Workers :
        /\ route[r] = "/predict" /\ Answered(r)
        /\ response[r].status_code = 400
        /\ body[r] = NoBody
        /\ Len(response[r].detail) = Len(PenguinFeatures)

\* The model emits only indices of LABEL_CLASSES and was fitted on FEATURE_COLUMNS.
MatchedPair ==
    /\ model.kind = "xgb"
    /\ model.feature_names = FEATURE_COLUMNS
    /\ {model.lo, model.hi} \subseteq 0..(Len(LABEL_CLASSES) - 1)

\* C5: against a matched pair, every validated record whose predict call does
\* not raise is answered 200 with a species that is one of LABEL_CLASSES.
C5_ValidLabel ==
    \A r \in Workers :
        (Answered(r) /\ ValidRequest(r) /\ MatchedPair /\ pred[r].kind = "value") =>
            /\ response[r].kind = "ok"
            /\ response[r].status_code = 200
            /\ DOMAIN response[r].json = {"species"}
            /\ response[r].json.species \in Range(LABEL_CLASSES)

\* A record with body_mass_g 0 whose sex was never seen in training, answered
\* with the last label.
C5_Witness ==
    \E r \in Workers :
        /\ Answered(r) /\ ValidRequest(r) /\ MatchedPair
        /\ payload[r]["body_mass_g"] <= 0
        /\ ~SeenInTraining(r, "sex")
        /\ response[r].kind = "ok"
        /\ response[r].json.species = LABEL_CLASSES[Len(LABEL_CLASSES)]

\* C6: a class index outside 0 .. len(LABEL_CLASSES)-1, too large or negative,
\* is answered 500 "Internal prediction error", never with a species.
C6_IndexChecked ==
    \A r \in Workers :
        (Answered(r) /\ pred[r].kind = "value"
            /\ pred[r].value \notin 0..(Len(LABEL_CLASSES) - 1)) =>
            response[r] = [kind |-> "error", status_code |-> 500,
                           detail |-> "Internal prediction error"]

\* C7: in a world where the download, the model load or the metadata load
\* fails, the process never serves and no request is ever taken or answered;
\* a request is only ever in hand in a process that has loaded the model and
\* both metadata lists.
C7_StartupFatal ==
    /\ StartupFails =>
          /\ phase # "serving"
          /\ \A r \in Workers : pc[r] = "idle" /\ response[r] = Nothing
    /\ (\E r \in Workers : pc[r] # "idle") =>
          /\ phase = "serving"
          /\ model.kind = "xgb"
          /\ loads = [model |-> 1, metadata |-> 1]
          /\ {"model", "FEATURE_COLUMNS", "LABEL_CLASSES"} \subseteq module_names
          /\ FEATURE_COLUMNS = metadata_file.dict.feature_columns
          /\ LABEL_CLASSES = metadata_file.dict.label_classes

\* Start-up died at the metadata lookups, model already loaded.
C7_Witness ==
    /\ StartupFails
    /\ phase = "crashed"
    /\ model.kind = "xgb"
    /\ meta # Nothing

\* C8: two answered /predict requests with the same validated record carry the
\* same response, whatever the other slots did meanwhile.
C8_Deterministic ==
    \A r1, r2 \in Workers :
        (Answered(r1) /\ Answered(r2) /\ ValidRequest(r1) /\ ValidRequest(r2)
            /\ payload[r1] = payload[r2]) =>
            response[r1] = response[r2]

C8_Witness ==
    \E r1, r2 \in Workers :
        /\ r1 # r2
        /\ Answered(r1) /\ Answered(r2) /\ ValidRequest(r1) /\ ValidRequest(r2)
        /\ payload[r1] = payload[r2]
        /\ response[r1].kind = "ok"
        /\ response[r1].json.species = "Gentoo"

\* C9: app.main offers _download_from_gcs, so the import at the top of the
\* tests succeeds and the helper can be called.
C9_HelperExists ==
    /\ phase = "serving" => "_download_from_gcs" \in module_names
    /\ test_import # "ImportError"

\* C10: while serving, the model and both metadata lists are what start-up
\* loaded, each loaded once, and every request's frame is computed from that
\* request's own payload.
C10_SharedStateFrozen ==
    phase = "serving" =>
        /\ model = gcs.content
        /\ FEATURE_COLUMNS = metadata_file.dict.feature_columns
        /\ LABEL_CLASSES = metadata_file.dict.label_classes
        /\ loads = [model |-> 1, metadata |-> 1]
        /\ \A r \in Workers :
              LET enc == get_dummies(DataFrame(payload[r]), CategoricalColumns,
                                     enum_format)
              IN /\ (route[r] = "/predict" /\ pc[r] = "reindex") => df[r] = enc
                 /\ Reconciled(r) =>
                       df[r] = reindex(enc, metadata_file.dict.feature_columns, 0)

\* Two requests with different records in the handler at once, after another
\* was answered.
C10_Witness ==
    /\ phase = "serving"
    /\ \E r1, r2 \in Workers :
          /\ pc[r1] = "decode" /\ pc[r2] = "predict"
          /\ payload[r1] # payload[r2]
          /\ df[r1] # df[r2]

====
